---- MODULE Spec2Model ----
(***************************************************************************)
(* A model of dmotylev/hetzner: the concurrent fetch of the five raw       *)
(* collections through the api client, the five reconciliation passes of   *)
(* getHetznerData over the node table, the final sort, and main's output.  *)
(*                                                                         *)
(* Pointers are modelled by a heap: a *Node is an index into `heap`, the   *)
(* map `nodes` binds a key (Ip.String()) to such an index, and `subnets`   *)
(* and the list `l` hold indices too.                                      *)
(***************************************************************************)
EXTENDS Integers, Sequences, FiniteSets, TLC

(***************************************************************************)
(* Bounds of the model.                                                    *)
(***************************************************************************)
MaxServers == 2
MaxIps == 2
MaxSubnets == 2
MaxRdns == 1
MaxFailover == 1
\* width of an address in bits (the program's 8*net.IPv4len, scaled down)
AddrBits == 3

(***************************************************************************)
(* Kinds (const block, iota).                                              *)
(***************************************************************************)
KindNil == 0
KindHost == 1
KindManagement == 2
KindNetwork == 3
KindVirtual == 4
KindFailover == 5

(***************************************************************************)
(* Addresses.  An api.IP / net.IP is either nil (an unparsable or empty    *)
(* JSON string) or an AddrBits-wide number.                                *)
(***************************************************************************)
NilIp == -1

\* api.IP.String / net.IP.String: the map key.  nil prints as "<nil>".
IpString(ip) == IF ip = NilIp THEN "<nil>" ELSE ToString(ip)

\* net.IP.Equal on parsed addresses (both 16-byte or nil).
IpEqual(a, b) == a = b

RECURSIVE Pow2(_)
Pow2(n) == IF n = 0 THEN 1 ELSE 2 * Pow2(n - 1)

\* net.CIDRMask(ones, bits): nil (modelled -1) when ones is out of range.
CIDRMask(ones, bits) == IF ones >= 0 /\ ones <= bits THEN ones ELSE -1

\* the &net.IPNet{IP, Mask} built for a Network node; NoSubnet is the nil pointer
NoSubnet == [IP |-> NilIp, Mask |-> -2]
MkSubnet(ip, ones) == [IP |-> ip, Mask |-> CIDRMask(ones, AddrBits)]

\* net.IPNet.Contains: with no usable network number (nil IP or nil mask)
\* the network number has length 0 and only a nil address "matches" it;
\* otherwise the masked addresses are compared.
Contains(net, ip) ==
    IF net.IP = NilIp \/ net.Mask < 0
    THEN ip = NilIp
    ELSE /\ ip # NilIp
         /\ (ip \div Pow2(AddrBits - net.Mask)) = (net.IP \div Pow2(AddrBits - net.Mask))

(***************************************************************************)
(* Conversions of the host and IP passes.                                  *)
(***************************************************************************)
ZeroTime == "0001-01-01"
ValidDates == {"2014-01-31", "2015-06-30"}
\* time.Parse(paidTimeFormat, s), error dropped: the zero time on failure
ParsePaidUntil(s) == IF s \in ValidDates THEN s ELSE ZeroTime

ValidMacs == {"00:21:85:62:3e:9c"}
\* net.ParseMAC(s), error dropped: nil (modelled "") on failure
ParseMAC(s) == IF s \in ValidMacs THEN s ELSE ""

(***************************************************************************)
(* Node and Clone.                                                         *)
(***************************************************************************)
ZeroNode ==
    [Ip |-> NilIp, Ptr |-> "", Separate_mac |-> "", Server_ip |-> NilIp,
     Subnet |-> NoSubnet, Gateway |-> NilIp,
     Dc |-> "", Product |-> "", Server_name |-> "", Server_number |-> 0,
     Throttled |-> FALSE, Status |-> "", Cancelled |-> FALSE, Failover |-> FALSE,
     Flatrate |-> FALSE, Locked |-> FALSE, Paid_until |-> ZeroTime,
     Traffic_warnings |-> FALSE, Traffic |-> "",
     Traffic_daily |-> 0, Traffic_hourly |-> 0, Traffic_monthly |-> 0,
     Active_server_ip |-> NilIp, Kind |-> KindNil]

\* a slip in Clone: two of the copied fields left out of the literal
CloneDropsFields(n) ==
    [ZeroNode EXCEPT
        !.Ip = n.Ip, !.Ptr = n.Ptr, !.Separate_mac = n.Separate_mac,
        !.Server_ip = n.Server_ip, !.Subnet = n.Subnet, !.Gateway = n.Gateway,
        !.Dc = n.Dc, !.Server_name = n.Server_name,
        !.Server_number = n.Server_number, !.Throttled = n.Throttled,
        !.Status = n.Status, !.Cancelled = n.Cancelled, !.Failover = n.Failover,
        !.Flatrate = n.Flatrate, !.Locked = n.Locked,
        !.Traffic = n.Traffic, !.Traffic_daily = n.Traffic_daily,
        !.Traffic_hourly = n.Traffic_hourly, !.Traffic_monthly = n.Traffic_monthly,
        !.Traffic_warnings = n.Traffic_warnings,
        !.Active_server_ip = n.Active_server_ip, !.Kind = n.Kind]

\* (*Node).Clone: a new Node with every one of the 24 fields copied
Clone(n) ==
    [Ip |-> n.Ip, Ptr |-> n.Ptr, Separate_mac |-> n.Separate_mac,
     Server_ip |-> n.Server_ip, Subnet |-> n.Subnet, Gateway |-> n.Gateway,
     Dc |-> n.Dc, Product |-> n.Product, Server_name |-> n.Server_name,
     Server_number |-> n.Server_number, Throttled |-> n.Throttled,
     Status |-> n.Status, Cancelled |-> n.Cancelled, Failover |-> n.Failover,
     Flatrate |-> n.Flatrate, Locked |-> n.Locked, Paid_until |-> n.Paid_until,
     Traffic |-> n.Traffic, Traffic_daily |-> n.Traffic_daily,
     Traffic_hourly |-> n.Traffic_hourly, Traffic_monthly |-> n.Traffic_monthly,
     Traffic_warnings |-> n.Traffic_warnings,
     Active_server_ip |-> n.Active_server_ip, Kind |-> n.Kind]

(***************************************************************************)
(* Nodes.Less, Swap and sort.Sort.                                         *)
(***************************************************************************)
\* a comparator that forgets the server number
LessKindOnly(a, b) == a.Kind < b.Kind

\* Nodes.Less on the two nodes n[i], n[j]
Less(a, b) ==
    IF a.Server_number = b.Server_number
    THEN a.Kind < b.Kind
    ELSE a.Server_number < b.Server_number

\* Nodes.Swap
Swap(s, i, j) == [s EXCEPT ![i] = s[j], ![j] = s[i]]

\* insertionSort's inner loop: data[j] sinks while it is Less than its left neighbour
RECURSIVE Sink(_, _, _)
Sink(h, s, j) ==
    IF j > 1 /\ Less(h[s[j]], h[s[j - 1]])
    THEN Sink(h, Swap(s, j, j - 1), j - 1)
    ELSE s

RECURSIVE InsertionSort(_, _, _)
InsertionSort(h, s, i) ==
    IF i > Len(s) THEN s ELSE InsertionSort(h, Sink(h, s, i), i + 1)

\* sort.Sort(l) on a list of at most 12 nodes, where the library runs its
\* insertion sort with Nodes.Less and Nodes.Swap
SortNodes(h, s) == InsertionSort(h, s, 2)

(***************************************************************************)
(* The provider's inventory: the raw records the five listings can hold.   *)
(***************************************************************************)
\* api.Server
Srv(ip, num) ==
    [Server_ip |-> ip, Server_number |-> num,
     Server_name |-> IF num = 1 THEN "alpha" ELSE "beta",
     Product |-> IF num = 1 THEN "EX40" ELSE "PX60",
     Dc |-> IF ip = 0 THEN "FSN1-DC5" ELSE "NBG1-DC1",
     Traffic |-> IF num = 1 THEN "20 TB" ELSE "unlimited",
     Flatrate |-> (num = 1), Status |-> IF num = 1 THEN "ready" ELSE "in process",
     Throttled |-> (num = 2), Cancelled |-> (ip = 1),
     Paid_until |-> IF num = 1 THEN "2014-01-31" ELSE "n/a"]

\* api.Ip
RawIp(ip, srv, locked) ==
    [Ip |-> ip, Server_ip |-> srv, Server_number |-> 0,
     Locked |-> locked,
     Separate_mac |-> IF locked THEN "00:21:85:62:3e:9c" ELSE "null",
     Traffic_warnings |-> locked,
     Traffic_hourly |-> IF locked THEN 50 ELSE 0,
     Traffic_daily |-> IF locked THEN 500 ELSE 0,
     Traffic_monthly |-> IF locked THEN 8 ELSE 0]

\* api.Subnet
RawSubnet(ip, mask, srv, fo) ==
    [Ip |-> ip, Mask |-> mask, Gateway |-> IF ip = NilIp THEN NilIp ELSE ip + 1,
     Server_ip |-> srv, Server_number |-> 0, Failover |-> fo,
     Locked |-> fo, Traffic_warnings |-> ~fo,
     Traffic_hourly |-> mask, Traffic_daily |-> 10 * mask, Traffic_monthly |-> 1]

\* api.Rdns
RawRdns(ip, ptr) == [Ip |-> ip, Ptr |-> ptr]

\* api.Failover
RawFailover(ip, active) ==
    [Ip |-> ip, Netmask |-> "255.255.255.255", Server_ip |-> 0,
     Server_number |-> 0, Active_server_ip |-> active]

ServerRecs == {Srv(0, 1), Srv(1, 2), Srv(0, 2)}
IpRecs == {RawIp(0, 0, TRUE), RawIp(2, 0, FALSE), RawIp(3, 2, TRUE), RawIp(0, 3, FALSE)}
SubnetRecs == {RawSubnet(4, 1, 0, FALSE), RawSubnet(6, 2, 1, FALSE),
               RawSubnet(5, 3, 0, TRUE), RawSubnet(2, 3, 0, TRUE)}
RdnsRecs == {RawRdns(7, "x.example.com"), RawRdns(0, "host.example.com"),
             RawRdns(3, "lost.example.com")}
FailoverRecs == {RawFailover(5, 1), RawFailover(4, 0), RawFailover(0, 1)}

\* the sequences over S of length at most n
SeqsUpTo(S, n) == UNION {[1..k -> S] : k \in 0..n}

(***************************************************************************)
(* State.                                                                  *)
(***************************************************************************)
VARIABLES
    remote,     \* what the provider holds for each listing (the environment)
    tpc,        \* position of each of the five fetch goroutines
    httpres,    \* what http.Client.Do handed to each goroutine's request
    ret,        \* the value api.Get returned to each goroutine
    wg,         \* sync.WaitGroup counter
    errc,       \* buffered error channel
    sendOrder,  \* the goroutines in the order they sent on errc
    rservers, rips, rsubnets, rrdns, rfailover,  \* the five result slots
    pc,         \* position of the main goroutine
    idx,        \* index of the receive loop, then of the running pass
    heap,       \* allocated Node objects
    nodes,      \* map[string]*Node
    subnets,    \* []*Node built by the subnet pass
    seen,       \* records consumed so far by each pass
    l,          \* the list getHetznerData returns
    err,        \* the error getHetznerData returns (<<>> is nil)
    fatal,      \* message of the panic that killed the process ("" if none)
    printed     \* node rows main has written

vars == <<remote, tpc, httpres, ret, wg, errc, sendOrder, rservers, rips, rsubnets, rrdns, rfailover,
          pc, idx, heap, nodes, subnets, seen, l, err, fatal, printed>>

fetchVars == <<tpc, httpres, ret, wg, errc, sendOrder>>
slotVars == <<rservers, rips, rsubnets, rrdns, rfailover>>
tableVars == <<heap, nodes, subnets>>

Paths == {"/server", "/ip", "/subnet", "/rdns", "/failover"}
Passes == <<"hosts", "ips", "subnets", "rdns", "failover">>

\* the collection a pass ranges over
RawOf(p) ==
    CASE p = "hosts" -> rservers
      [] p = "ips" -> rips
      [] p = "subnets" -> rsubnets
      [] p = "rdns" -> rrdns
      [] p = "failover" -> rfailover

\* where control goes from the head of the k-th range loop: into its body at
\* the first record, or past every empty collection to the conversion
RECURSIVE LoopHead(_)
LoopHead(k) ==
    IF k > Len(Passes) THEN [pc |-> "collect", idx |-> 0]
    ELSE IF Len(RawOf(Passes[k])) > 0 THEN [pc |-> Passes[k], idx |-> 1]
    ELSE LoopHead(k + 1)

PassNo(p) == CHOOSE k \in 1..Len(Passes) : Passes[k] = p

\* where control goes after the body of pass p ran on record i
AfterRecord(p, i) ==
    IF i < Len(RawOf(p)) THEN [pc |-> p, idx |-> i + 1] ELSE LoopHead(PassNo(p) + 1)

Found(key) == key \in DOMAIN nodes

\* nodes[key] = n
Bind(key, n) == [k \in DOMAIN nodes \cup {key} |-> IF k = key THEN n ELSE nodes[k]]

\* a failure that is logged and skipped: the run carries on to the conversion
PanicSkips(msg) ==
    /\ pc' = "collect"
    /\ fatal' = ""
    /\ UNCHANGED <<idx, heap, nodes, subnets, seen, l, err, printed>>

\* an unrecovered panic: the process dies, nothing is returned or printed
Panic(msg) ==
    /\ pc' = "crashed"
    /\ fatal' = msg
    /\ UNCHANGED <<idx, heap, nodes, subnets, seen, l, err, printed>>

Step(p) ==
    /\ pc' = AfterRecord(p, idx).pc
    /\ idx' = AfterRecord(p, idx).idx
    /\ seen' = [seen EXCEPT ![p] = @ + 1]
    /\ UNCHANGED <<l, err, fatal, printed>>

(***************************************************************************)
(* Pass 1: hosts.                                                          *)
(***************************************************************************)
\* the Node literal built from a Server record
HostNode(e) ==
    [ZeroNode EXCEPT
        !.Ip = e.Server_ip, !.Server_number = e.Server_number,
        !.Server_name = e.Server_name, !.Product = e.Product, !.Dc = e.Dc,
        !.Traffic = e.Traffic, !.Flatrate = e.Flatrate, !.Status = e.Status,
        !.Throttled = e.Throttled, !.Cancelled = e.Cancelled,
        !.Paid_until = ParsePaidUntil(e.Paid_until),
        !.Server_ip = e.Server_ip, !.Kind = KindHost]

HostStep ==
    /\ pc = "hosts"
    /\ LET e == rservers[idx]
           n == HostNode(e)
       IN /\ heap' = Append(heap, n)
          /\ nodes' = Bind(IpString(n.Ip), Len(heap) + 1)
          /\ UNCHANGED subnets
    /\ Step("hosts")
    /\ UNCHANGED <<remote, fetchVars, slotVars>>

(***************************************************************************)
(* Pass 2: IPs.                                                            *)
(***************************************************************************)
\* a clone of the owner that keeps the owner's kind
ManagementKeepsKind(host, e) == [Clone(host) EXCEPT !.Ip = e.Ip]

\* the clone of the owner that becomes the Management node of e.Ip
ManagementNode(host, e) == [Clone(host) EXCEPT !.Ip = e.Ip, !.Kind = KindManagement]

\* an update that also rewrites the node's kind
ApplyIpSetsKind(n, e) ==
    [n EXCEPT !.Locked = e.Locked, !.Separate_mac = ParseMAC(e.Separate_mac),
              !.Traffic_warnings = e.Traffic_warnings,
              !.Traffic_hourly = e.Traffic_hourly,
              !.Traffic_daily = e.Traffic_daily,
              !.Traffic_monthly = e.Traffic_monthly,
              !.Kind = KindManagement]

\* the address-level fields every RawIp record sets on its node
ApplyIp(n, e) ==
    [n EXCEPT !.Locked = e.Locked, !.Separate_mac = ParseMAC(e.Separate_mac),
              !.Traffic_warnings = e.Traffic_warnings,
              !.Traffic_hourly = e.Traffic_hourly,
              !.Traffic_daily = e.Traffic_daily,
              !.Traffic_monthly = e.Traffic_monthly]

\* the lookup of the owner: any node bound to e.Server_ip.String()
OwnerFound(e) == Found(IpString(e.Server_ip))

IpStep ==
    /\ pc = "ips"
    /\ LET e == rips[idx]
           key == IpString(e.Ip)
       IN IF Found(key)
          THEN /\ heap' = [heap EXCEPT ![nodes[key]] = ApplyIp(@, e)]
               /\ UNCHANGED <<nodes, subnets>>
               /\ Step("ips")
          ELSE IF OwnerFound(e)
          THEN LET host == nodes[IpString(e.Server_ip)] IN
               IF ~IpEqual(heap[host].Ip, e.Ip)
               THEN LET n == ManagementNode(heap[host], e) IN
                    /\ heap' = Append(heap, ApplyIp(n, e))
                    /\ nodes' = Bind(IpString(n.Ip), Len(heap) + 1)
                    /\ UNCHANGED subnets
                    /\ Step("ips")
               ELSE /\ heap' = [heap EXCEPT ![host] = ApplyIp(@, e)]
                    /\ UNCHANGED <<nodes, subnets>>
                    /\ Step("ips")
          ELSE Panic("no host found for " \o key)
    /\ UNCHANGED <<remote, fetchVars, slotVars>>

(***************************************************************************)
(* Pass 3: subnets.                                                        *)
(***************************************************************************)
\* a subnet node that keeps the kind of the node it was cloned from
NetworkNodeKeepsKind(server, e) ==
    [Clone(server) EXCEPT
        !.Ip = e.Ip, !.Gateway = e.Gateway,
        !.Failover = e.Failover, !.Locked = e.Locked,
        !.Traffic_warnings = e.Traffic_warnings,
        !.Traffic_hourly = e.Traffic_hourly,
        !.Traffic_daily = e.Traffic_daily,
        !.Traffic_monthly = e.Traffic_monthly,
        !.Subnet = MkSubnet(e.Ip, e.Mask)]

\* the clone of the owner that becomes the Network node of the subnet e
NetworkNode(server, e) ==
    [Clone(server) EXCEPT
        !.Ip = e.Ip, !.Kind = KindNetwork, !.Gateway = e.Gateway,
        !.Failover = e.Failover, !.Locked = e.Locked,
        !.Traffic_warnings = e.Traffic_warnings,
        !.Traffic_hourly = e.Traffic_hourly,
        !.Traffic_daily = e.Traffic_daily,
        !.Traffic_monthly = e.Traffic_monthly,
        !.Subnet = MkSubnet(e.Ip, e.Mask)]

SubnetStep ==
    /\ pc = "subnets"
    /\ LET e == rsubnets[idx]
           key == IpString(e.Ip)
       IN IF Found(key)
          THEN Panic("subnet conflicted with node " \o key)
          ELSE IF ~Found(IpString(e.Server_ip))
          \* server is nil and Clone reads its fields
          THEN Panic("invalid memory address or nil pointer dereference")
          ELSE LET n == NetworkNode(heap[nodes[IpString(e.Server_ip)]], e) IN
               /\ heap' = Append(heap, n)
               /\ nodes' = Bind(IpString(n.Ip), Len(heap) + 1)
               /\ subnets' = Append(subnets, Len(heap) + 1)
               /\ Step("subnets")
    /\ UNCHANGED <<remote, fetchVars, slotVars>>

(***************************************************************************)
(* Pass 4: reverse DNS.                                                    *)
(***************************************************************************)
\* the positions of `subnets` whose range contains ip
Containing(ip) == {i \in 1..Len(subnets) : Contains(heap[subnets[i]].Subnet, ip)}

\* a scan that keeps the last subnet that contains ip
LastContaining(ip) == subnets[CHOOSE i \in Containing(ip) : \A j \in Containing(ip) : i >= j]

\* the subnet the inner loop stops at: the first one that contains ip
FirstContaining(ip) == subnets[CHOOSE i \in Containing(ip) : \A j \in Containing(ip) : i <= j]

\* the clone of the subnet's owner that becomes the Virtual node of ip
VirtualNode(host, ip, ptr) ==
    [Clone(host) EXCEPT !.Ip = ip, !.Ptr = ptr, !.Kind = KindVirtual]

RdnsStep ==
    /\ pc = "rdns"
    /\ LET e == rrdns[idx]
           ip == e.Ip
           ptr == e.Ptr
           key == IpString(ip)
       IN IF Found(key)
          THEN /\ heap' = [heap EXCEPT ![nodes[key]].Ptr = ptr]
               /\ UNCHANGED <<nodes, subnets>>
               /\ Step("rdns")
          ELSE IF Containing(ip) # {}
          THEN LET s == heap[FirstContaining(ip)] IN
               IF ~Found(IpString(s.Server_ip))
               THEN Panic("invalid memory address or nil pointer dereference")
               ELSE LET n == VirtualNode(heap[nodes[IpString(s.Server_ip)]], ip, ptr) IN
                    /\ heap' = Append(heap, n)
                    /\ nodes' = Bind(IpString(n.Ip), Len(heap) + 1)
                    /\ UNCHANGED subnets
                    /\ Step("rdns")
          ELSE Panic("should not reach that point: loosen record " \o key \o " PTR " \o ptr)
    /\ UNCHANGED <<remote, fetchVars, slotVars>>

(***************************************************************************)
(* Pass 5: failover.                                                       *)
(***************************************************************************)
\* a guard that only asks for some node at the address
FailoverTargetAnyNode(e) == Found(IpString(e.Ip))

\* the condition under which a RawFailover record is applied:
\* found && n.Kind == KindNetwork && n.Failover == true
FailoverTarget(e) ==
    /\ Found(IpString(e.Ip))
    /\ heap[nodes[IpString(e.Ip)]].Kind = KindNetwork
    /\ heap[nodes[IpString(e.Ip)]].Failover = TRUE

\* a promotion that writes the destination into the node's own address
PromoteRenames(n, e) == [n EXCEPT !.Kind = KindFailover, !.Ip = e.Active_server_ip]

\* a promotion that leaves the active destination unset
PromoteForgetsActive(n, e) == [n EXCEPT !.Kind = KindFailover]

\* n.Kind = KindFailover; n.Active_server_ip = net.IP(e.Active_server_ip)
Promote(n, e) ==
    [n EXCEPT !.Kind = KindFailover, !.Active_server_ip = e.Active_server_ip]

FailoverStep ==
    /\ pc = "failover"
    /\ LET e == rfailover[idx]
           key == IpString(e.Ip)
       IN IF ~FailoverTarget(e)
          THEN Panic("no subnet for failover " \o key)
          ELSE /\ heap' = [heap EXCEPT ![nodes[key]] = Promote(@, e)]
               /\ UNCHANGED <<nodes, subnets>>
               /\ Step("failover")
    /\ UNCHANGED <<remote, fetchVars, slotVars>>

(***************************************************************************)
(* Conversion of the map to the sorted list, and the return.               *)
(***************************************************************************)
\* every order a range over a set of map entries can take
RECURSIVE Orders(_)
Orders(S) ==
    IF S = {} THEN {<<>>}
    ELSE UNION {{<<x>> \o o : o \in Orders(S \ {x})} : x \in S}

Range(f) == {f[k] : k \in DOMAIN f}

\* for _, n := range nodes { l = append(l, n) }; sort.Sort(l); return l, nil
Convert ==
    /\ pc = "collect"
    /\ \E order \in Orders(Range(nodes)) : l' = SortNodes(heap, order)
    /\ pc' = "returned"
    /\ UNCHANGED <<remote, fetchVars, slotVars, idx, tableVars, seen, err, fatal, printed>>

(***************************************************************************)
(* main, after getHetznerData returned.                                    *)
(***************************************************************************)
\* the kinds the default -kinds flag selects
kinds == {KindHost, KindManagement, KindNetwork, KindVirtual, KindFailover}

Selected(n) == heap[n].Kind \in kinds

\* log.Fatal(err) on an error; otherwise one row per selected node, in list order
MainOutput ==
    /\ pc = "returned"
    /\ pc' = "exited"
    /\ printed' = IF err # <<>> THEN printed ELSE printed \o SelectSeq(l, Selected)
    /\ UNCHANGED <<remote, fetchVars, slotVars, idx, tableVars, seen, l, err, fatal>>

(***************************************************************************)
(* The api client.  An error interface value is <<>> (nil) or <<e>>.       *)
(***************************************************************************)
StatusOK == 200

\* what http.Client.Do can hand back: an error and no response, a response
\* and an error (a refused redirect), or a response with a status and a body
NoResponse == [res |-> FALSE, err |-> "dial tcp: connection refused", status |-> 0, body |-> ""]
RefusedRedirect == [res |-> TRUE, err |-> "stopped after 10 redirects", status |-> 302, body |-> ""]
Response(status, body) == [res |-> TRUE, err |-> "", status |-> status, body |-> body]

\* body kinds: "list" a well-formed listing of enveloped records, "error" the
\* provider's {"error": {...}} object, "garbage" not JSON, "object" a JSON
\* object without the "error" key, "badlist" a list whose envelopes lack the key
Bodies == {"list", "error", "garbage", "object", "badlist"}

Cause(kind, status, code, message) ==
    [kind |-> kind, Status |-> status, Code |-> code, Message |-> message]

\* the api.Error a provider error body decodes to
ProviderError(status) == Cause("provider", status, "SERVER_ERROR", "provider says no")
DecodeError == Cause("decode", 0, "", "json: cannot unmarshal")
TransportError(msg) == Cause("transport", 0, "", msg)

\* decodeResponse(res, v): want is "slice" for a listing, "struct" for &cause.
\* Yields the error returned, whether v was set, and whether reflect panicked.
decodeResponse(body, want) ==
    CASE body = "garbage" -> [err |-> <<DecodeError>>, set |-> FALSE, panics |-> FALSE]
      [] body = "list" ->
            IF want = "slice" THEN [err |-> <<>>, set |-> TRUE, panics |-> FALSE]
            ELSE [err |-> <<DecodeError>>, set |-> FALSE, panics |-> FALSE]
      [] body = "badlist" ->
            IF want = "slice" THEN [err |-> <<>>, set |-> FALSE, panics |-> TRUE]
            ELSE [err |-> <<DecodeError>>, set |-> FALSE, panics |-> FALSE]
      [] body = "error" ->
            IF want = "struct" THEN [err |-> <<>>, set |-> TRUE, panics |-> FALSE]
            ELSE [err |-> <<DecodeError>>, set |-> FALSE, panics |-> FALSE]
      [] body = "object" ->
            IF want = "struct" THEN [err |-> <<>>, set |-> FALSE, panics |-> TRUE]
            ELSE [err |-> <<DecodeError>>, set |-> FALSE, panics |-> FALSE]

\* newRequestError(cause): &RequestError{req.Method, req.URL.Path, res.StatusCode, cause}
newRequestError(method, path, status, cause) ==
    <<[HttpReq |-> method, HttpMethod |-> path, HttpStatusCode |-> status, RootCause |-> cause]>>

Returns(e, stored) == [panics |-> FALSE, err |-> e, stored |-> stored]
Panics == [panics |-> TRUE, err |-> <<>>, stored |-> FALSE]

\* the body of do after the deferred close (the error check, then the decode)
doWithResponse(method, path, t) ==
    IF t.err # "" THEN Returns(newRequestError(method, path, t.status, TransportError(t.err)), FALSE)
    ELSE IF t.status # StatusOK
    THEN LET d == decodeResponse(t.body, "struct") IN
         IF d.panics THEN Panics
         ELSE Returns(newRequestError(method, path, t.status,
                        IF d.err = <<>> THEN ProviderError(t.status) ELSE d.err[1]), FALSE)
    ELSE LET d == decodeResponse(t.body, "slice") IN
         IF d.panics THEN Panics
         ELSE IF d.err # <<>> THEN Returns(newRequestError(method, path, t.status, d.err[1]), FALSE)
         ELSE Returns(<<>>, TRUE)

\* (*Client).do: `defer res.Body.Close()` reads res before err is looked at,
\* so a nil res panics there
do(method, path, t) ==
    IF ~t.res THEN Panics ELSE doWithResponse(method, path, t)

\* (*Client).Get / api.Get
Get(path, t) == do("GET", path, t)

(***************************************************************************)
(* The fetch fan-out.                                                      *)
(***************************************************************************)
NumFetches == 5
\* a channel with room for one result less than there are goroutines
CapTooSmall == NumFetches - 1
CapErrc == 5

\* the transport outcomes a fetch of the fan-out is offered
FetchOutcomes == {NoResponse, Response(StatusOK, "list"), Response(500, "error")}

\* the statuses and the transport outcomes a single request is offered
Statuses == {StatusOK, 404, 500}
Transports ==
    {NoResponse, RefusedRedirect} \cup {Response(s, b) : s \in Statuses, b \in Bodies}

SlotOf(path) ==
    CASE path = "/server" -> rservers
      [] path = "/ip" -> rips
      [] path = "/subnet" -> rsubnets
      [] path = "/rdns" -> rrdns
      [] path = "/failover" -> rfailover

\* the slots after the goroutine of `path` stored v through its own pointer
Store(path, v) ==
    /\ rservers' = IF path = "/server" THEN v ELSE rservers
    /\ rips' = IF path = "/ip" THEN v ELSE rips
    /\ rsubnets' = IF path = "/subnet" THEN v ELSE rsubnets
    /\ rrdns' = IF path = "/rdns" THEN v ELSE rrdns
    /\ rfailover' = IF path = "/failover" THEN v ELSE rfailover

mainVars == <<pc, idx, heap, nodes, subnets, seen, l, err, printed>>

\* api.Get(path, &slot) in the goroutine of `path`
Fetch(path) ==
    /\ fatal = ""
    /\ tpc[path] = "get"
    /\ \E t \in FetchOutcomes :
         LET r == Get(path, t) IN
         /\ tpc' = [tpc EXCEPT ![path] = IF r.panics THEN "panicking" ELSE "send"]
         /\ httpres' = [httpres EXCEPT ![path] = t]
         /\ ret' = [ret EXCEPT ![path] = r.err]
         /\ Store(path, IF r.stored THEN remote[path] ELSE SlotOf(path))
    /\ UNCHANGED <<remote, wg, errc, sendOrder, mainVars, fatal>>

\* the same call, the transport free to answer with any status and body
Call(path) ==
    /\ fatal = ""
    /\ tpc[path] = "get"
    /\ \E t \in Transports :
         LET r == Get(path, t) IN
         /\ tpc' = [tpc EXCEPT ![path] = IF r.panics THEN "panicking" ELSE "send"]
         /\ httpres' = [httpres EXCEPT ![path] = t]
         /\ ret' = [ret EXCEPT ![path] = r.err]
         /\ Store(path, IF r.stored THEN remote[path] ELSE SlotOf(path))
    /\ UNCHANGED <<remote, wg, errc, sendOrder, mainVars, fatal>>

\* errc <- (the value api.Get returned); blocks while the channel is full
Send(path) ==
    /\ fatal = ""
    /\ tpc[path] = "send"
    /\ Len(errc) < CapErrc
    /\ errc' = Append(errc, ret[path])
    /\ sendOrder' = Append(sendOrder, path)
    /\ tpc' = [tpc EXCEPT ![path] = "sent"]
    /\ UNCHANGED <<remote, httpres, ret, wg, slotVars, mainVars, fatal>>

\* the deferred wg.Done(), run when the goroutine returns or unwinds a panic
Done(path) ==
    /\ fatal = ""
    /\ tpc[path] \in {"sent", "panicking"}
    /\ wg' = wg - 1
    /\ tpc' = [tpc EXCEPT ![path] = IF tpc[path] = "sent" THEN "exit" ELSE "dead"]
    /\ UNCHANGED <<remote, httpres, ret, errc, sendOrder, slotVars, mainVars, fatal>>

\* an unrecovered panic of a goroutine ends the process
Crash(path) ==
    /\ fatal = ""
    /\ tpc[path] = "dead"
    /\ pc # "exited"
    /\ fatal' = "invalid memory address or nil pointer dereference"
    /\ pc' = "crashed"
    /\ UNCHANGED <<remote, fetchVars, slotVars, idx, heap, nodes, subnets, seen, l, err, printed>>

\* a barrier that lets main through while one goroutine is still running
WaitOpenEarly == wg <= 1

\* what wg.Wait() waits for
WaitOpen == wg = 0

\* wg.Wait()
Wait ==
    /\ fatal = ""
    /\ pc = "wait"
    /\ WaitOpen
    /\ pc' = "recv"
    /\ idx' = 0
    /\ UNCHANGED <<remote, fetchVars, slotVars, heap, nodes, subnets, seen, l, err, fatal, printed>>

\* a receive loop that never sees an error
IsErrorNever(v) == FALSE

\* err != nil
IsError(v) == v # <<>>

\* one turn of `for i := 0; i < cap(errc); i++ { if err := <-errc; err != nil { return nil, err } }`
Recv ==
    /\ fatal = ""
    /\ pc = "recv"
    /\ errc # <<>>
    /\ errc' = Tail(errc)
    /\ IF IsError(Head(errc))
       THEN /\ err' = Head(errc)
            /\ pc' = "returned"
            /\ UNCHANGED idx
       ELSE /\ UNCHANGED err
            /\ IF idx + 1 < CapErrc
               THEN pc' = "recv" /\ idx' = idx + 1
               ELSE pc' = LoopHead(1).pc /\ idx' = LoopHead(1).idx
    /\ UNCHANGED <<remote, tpc, httpres, ret, wg, sendOrder, slotVars, heap, nodes, subnets, seen, l, fatal, printed>>

(***************************************************************************)
(* Specifications.                                                         *)
(***************************************************************************)
Inventory(srv, ip, sub, rd, fo) ==
    [p \in Paths |->
        CASE p = "/server" -> srv [] p = "/ip" -> ip [] p = "/subnet" -> sub
          [] p = "/rdns" -> rd [] p = "/failover" -> fo]

\* the server listings within the bounds: a server number names one server
ServerListings ==
    {srv \in SeqsUpTo(ServerRecs, MaxServers) :
        \A i, j \in 1..Len(srv) : i # j => srv[i].Server_number # srv[j].Server_number}

\* every inventory within the bounds
Inventories ==
    {Inventory(srv, ip, sub, rd, fo) :
        srv \in ServerListings, ip \in SeqsUpTo(IpRecs, MaxIps),
        sub \in SeqsUpTo(SubnetRecs, MaxSubnets), rd \in SeqsUpTo(RdnsRecs, MaxRdns),
        fo \in SeqsUpTo(FailoverRecs, MaxFailover)}

\* the inventories the fan-out is run against: a consistent one, and one whose
\* failover record names a subnet that is not a failover net
FetchInventories ==
    {Inventory(<<Srv(0, 1), Srv(1, 2)>>, <<RawIp(2, 0, FALSE), RawIp(3, 2, TRUE)>>,
               <<RawSubnet(4, 1, 0, FALSE), RawSubnet(5, 3, 0, TRUE)>>,
               <<RawRdns(7, "x.example.com")>>, <<RawFailover(ip, 1)>>) : ip \in {5, 4}}

NotAsked == [res |-> FALSE, err |-> "", status |-> 0, body |-> ""]

\* the state common to both starts: nothing built, returned or printed yet
InitMain ==
    /\ heap = <<>>
    /\ nodes = <<>>
    /\ subnets = <<>>
    /\ seen = [k \in {Passes[j] : j \in 1..Len(Passes)} |-> 0]
    /\ l = <<>>
    /\ err = <<>>
    /\ fatal = ""
    /\ printed = <<>>

\* getHetznerData after `wg.Add(5)` and the five `go` statements
Init ==
    /\ remote \in FetchInventories
    /\ tpc = [p \in Paths |-> "get"]
    /\ httpres = [p \in Paths |-> NotAsked]
    /\ ret = [p \in Paths |-> <<>>]
    /\ wg = NumFetches
    /\ errc = <<>>
    /\ sendOrder = <<>>
    /\ rservers = <<>> /\ rips = <<>> /\ rsubnets = <<>> /\ rrdns = <<>> /\ rfailover = <<>>
    /\ pc = "wait"
    /\ idx = 0
    /\ InitMain

Next ==
    \/ \E path \in Paths : Fetch(path)
    \/ \E path \in Paths : Send(path)
    \/ \E path \in Paths : Done(path)
    \/ \E path \in Paths : Crash(path)
    \/ Wait
    \/ Recv
    \/ HostStep
    \/ IpStep
    \/ SubnetStep
    \/ RdnsStep
    \/ FailoverStep
    \/ Convert
    \/ MainOutput

Spec == Init /\ [][Next]_vars

\* getHetznerData at `nodes := make(map[string]*Node)`: the five fetches
\* succeeded and left an inventory within the bounds in the slots
InitReconcile ==
    /\ remote \in Inventories
    /\ tpc = [p \in Paths |-> "exit"]
    /\ httpres = [p \in Paths |-> Response(StatusOK, "list")]
    /\ ret = [p \in Paths |-> <<>>]
    /\ wg = 0
    /\ errc = <<>>
    /\ sendOrder = <<"/server", "/ip", "/subnet", "/rdns", "/failover">>
    /\ rservers = remote["/server"] /\ rips = remote["/ip"]
    /\ rsubnets = remote["/subnet"] /\ rrdns = remote["/rdns"]
    /\ rfailover = remote["/failover"]
    /\ pc = LoopHead(1).pc
    /\ idx = LoopHead(1).idx
    /\ InitMain

NextReconcile ==
    \/ HostStep
    \/ IpStep
    \/ SubnetStep
    \/ RdnsStep
    \/ FailoverStep
    \/ Convert
    \/ MainOutput

SpecReconcile == InitReconcile /\ [][NextReconcile]_vars

\* a fetch whose api.Get returns to its goroutine (with a value or an error)
Returning(path) == Fetch(path) /\ tpc'[path] = "send"

\* the fan-out when every api.Get returns
NextFanOut ==
    \/ \E path \in Paths : Returning(path)
    \/ \E path \in Paths : Send(path)
    \/ \E path \in Paths : Done(path)
    \/ Wait
    \/ Recv
    \/ HostStep
    \/ IpStep
    \/ SubnetStep
    \/ RdnsStep
    \/ FailoverStep
    \/ Convert
    \/ MainOutput

\* the scheduler runs every goroutine that can take a step: the five fetch
\* goroutines through their call, send and deferred Done, and main through
\* wg.Wait() and the receive loop
FairFanOut ==
    /\ \A path \in Paths :
          /\ WF_vars(Returning(path))
          /\ WF_vars(Send(path))
          /\ WF_vars(Done(path))
    /\ WF_vars(Wait)
    /\ WF_vars(Recv)

SpecFanOut == Init /\ [][NextFanOut]_vars /\ FairFanOut

\* the listing every other goroutine of InitClient has already stored
ClientInventory ==
    Inventory(<<Srv(0, 1)>>, <<RawIp(2, 0, TRUE)>>, <<RawSubnet(5, 3, 0, TRUE)>>,
              <<RawRdns(5, "net.example.com")>>, <<RawFailover(5, 1)>>)

\* getHetznerData with four of the five goroutines finished successfully and
\* the goroutine of one path about to call api.Get
InitClient ==
    /\ remote = ClientInventory
    /\ \E last \in Paths :
          /\ tpc = [p \in Paths |-> IF p = last THEN "get" ELSE "exit"]
          /\ httpres = [p \in Paths |-> IF p = last THEN NotAsked ELSE Response(StatusOK, "list")]
          /\ rservers = IF last = "/server" THEN <<>> ELSE remote["/server"]
          /\ rips = IF last = "/ip" THEN <<>> ELSE remote["/ip"]
          /\ rsubnets = IF last = "/subnet" THEN <<>> ELSE remote["/subnet"]
          /\ rrdns = IF last = "/rdns" THEN <<>> ELSE remote["/rdns"]
          /\ rfailover = IF last = "/failover" THEN <<>> ELSE remote["/failover"]
          /\ \E o \in Orders(Paths \ {last}) : sendOrder = o
    /\ ret = [p \in Paths |-> <<>>]
    /\ wg = 1
    /\ errc = <<<<>>, <<>>, <<>>, <<>>>>
    /\ pc = "wait"
    /\ idx = 0
    /\ InitMain

NextClient ==
    \/ \E path \in Paths : Call(path)
    \/ \E path \in Paths : Send(path)
    \/ \E path \in Paths : Done(path)
    \/ \E path \in Paths : Crash(path)
    \/ Wait
    \/ Recv
    \/ HostStep
    \/ IpStep
    \/ SubnetStep
    \/ RdnsStep
    \/ FailoverStep
    \/ Convert
    \/ MainOutput

SpecClient == InitClient /\ [][NextClient]_vars

(***************************************************************************)
(* Properties.                                                             *)
(***************************************************************************)
\* getHetznerData returned a node list (and no error)
ReturnedList == pc \in {"returned", "exited"} /\ err = <<>>

\* the nodes of the returned list, in order
Out(i) == heap[l[i]]

KindsOut == {Out(i).Kind : i \in 1..Len(l)}

SameAncestry(a, b) ==
    /\ a.Product = b.Product
    /\ a.Dc = b.Dc
    /\ a.Server_name = b.Server_name
    /\ a.Server_number = b.Server_number
    /\ a.Status = b.Status
    /\ a.Cancelled = b.Cancelled
    /\ a.Flatrate = b.Flatrate
    /\ a.Throttled = b.Throttled
    /\ a.Paid_until = b.Paid_until
    /\ a.Traffic = b.Traffic
    /\ a.Server_ip = b.Server_ip

\* C1: in every returned list, each node that is not Host-kind has a Host-kind
\* node in the same list with the same eleven ancestry fields.
C1_AncestryCopy ==
    ReturnedList =>
        \A i \in 1..Len(l) :
            Out(i).Kind # KindHost =>
                \E j \in 1..Len(l) :
                    Out(j).Kind = KindHost /\ SameAncestry(Out(j), Out(i))

\* a returned list holding derived nodes of all four kinds, owned by two hosts
\* with different ancestry
C1_Witness ==
    /\ ReturnedList
    /\ {KindManagement, KindNetwork, KindVirtual, KindFailover} \subseteq KindsOut
    /\ \E i, j \in 1..Len(l) :
          /\ Out(i).Kind # KindHost /\ Out(j).Kind # KindHost
          /\ Out(i).Product # Out(j).Product

\* C2: in every returned list no two positions hold nodes with the same
\* identity string Ip.String(), whatever duplicates the raw collections hold.
C2_DistinctIdentities ==
    ReturnedList =>
        \A i, j \in 1..Len(l) :
            i # j => IpString(Out(i).Ip) # IpString(Out(j).Ip)

\* a returned list of several nodes, one of them promoted to Failover, built
\* from two servers with the same main IP, a repeated RawIp record and an RDNS
\* record for an address that already had a node
C2_Witness ==
    /\ ReturnedList
    /\ Len(l) >= 3
    /\ KindFailover \in KindsOut
    /\ Len(rservers) = 2 /\ rservers[1].Server_ip = rservers[2].Server_ip
    /\ Len(rips) = 2 /\ rips[1] = rips[2]
    /\ Len(rrdns) = 1 /\ rrdns[1].Ip = rservers[1].Server_ip

\* lexicographic comparison of (Server_number, kind rank)
LexLess(a, b) ==
    \/ a.Server_number < b.Server_number
    \/ a.Server_number = b.Server_number /\ a.Kind < b.Kind

SameRank(a, b) == a.Server_number = b.Server_number /\ a.Kind = b.Kind

C4_Sorted ==
    ReturnedList =>
        /\ \A i \in 1..(Len(l) - 1) :
              \/ Out(i).Server_number < Out(i + 1).Server_number
              \/ /\ Out(i).Server_number = Out(i + 1).Server_number
                 /\ Out(i).Kind <= Out(i + 1).Kind
        /\ \A i, j, k \in 1..Len(l) :
              i < j /\ j < k /\ Out(i).Server_number = Out(k).Server_number
                  => Out(j).Server_number = Out(i).Server_number
        /\ \A i, j \in 1..Len(l) :
              /\ Out(i).Kind = KindHost /\ Out(j).Kind # KindHost
              /\ Out(i).Server_number = Out(j).Server_number
              => i < j

\* a returned list over two server numbers in which a node of the higher
\* kind rank belongs to the lower server number
C4_Witness ==
    /\ ReturnedList
    /\ Len(l) >= 5
    /\ \E i, j \in 1..Len(l) :
          /\ Out(i).Server_number < Out(j).Server_number
          /\ Out(i).Kind > Out(j).Kind

\* the record the running pass is at
AtIp == pc = "ips"
AtFailover == pc = "failover"

\* some Host-kind node is bound to the record's owning server main IP
HostOwner(e) ==
    /\ Found(IpString(e.Server_ip))
    /\ heap[nodes[IpString(e.Server_ip)]].Kind = KindHost

Aborted == pc' = "crashed" /\ fatal' # "" /\ l' = <<>> /\ printed' = <<>>

\* C5 as stated: whenever the IP pass is at a RawIp record whose Server_ip is
\* not bound to a Host-kind node, the step it takes aborts the run with a
\* panic, whatever the record's own Ip is.
C5_UnknownOwnerAborts ==
    [][(AtIp /\ ~HostOwner(rips[idx])) => Aborted]_vars

\* C6: whenever the failover pass is at a RawFailover record with no node at
\* its IP, or a node there that is not Network-kind, or one whose Failover
\* flag is false, the step it takes aborts the run: the record is not skipped,
\* no node changes and no list is returned.
C6_FailoverNeverSkipped ==
    [][(AtFailover /\
        LET key == IpString(rfailover[idx].Ip) IN
        \/ key \notin DOMAIN nodes
        \/ heap[nodes[key]].Kind # KindNetwork
        \/ ~heap[nodes[key]].Failover)
       => (Aborted /\ heap' = heap /\ nodes' = nodes /\ seen' = seen)]_vars

\* the run died in the failover pass on a record that names a Network node
\* whose Failover flag is false
C6_Witness ==
    /\ pc = "crashed"
    /\ seen["failover"] < Len(rfailover)
    /\ seen["rdns"] = Len(rrdns)
    /\ idx \in 1..Len(rfailover)
    /\ fatal = "no subnet for failover " \o IpString(rfailover[idx].Ip)
    /\ Found(IpString(rfailover[idx].Ip))
    /\ heap[nodes[IpString(rfailover[idx].Ip)]].Kind = KindNetwork
    /\ ~heap[nodes[IpString(rfailover[idx].Ip)]].Failover
    /\ l = <<>>

PassSet == {Passes[k] : k \in 1..Len(Passes)}

\* every slot holds the provider's listing and every pass consumed all of its
\* collection
AllFetchedAndReconciled ==
    /\ \A path \in Paths : SlotOf(path) = remote[path]
    /\ \A p \in PassSet : seen[p] = Len(RawOf(p))

\* C7: a node list is returned only by a run without error or panic in which
\* all five collections were fetched and all five passes ran to their end,
\* and then it lists every node of the table once; any other run returns no
\* list; main writes node rows only from such a list.
C7_NoPartialResult ==
    /\ ReturnedList =>
          /\ fatal = ""
          /\ AllFetchedAndReconciled
          /\ pc = "exited" \/ {l[i] : i \in 1..Len(l)} = Range(nodes)
          /\ Len(l) = Cardinality(Range(nodes))
    /\ ~ReturnedList => l = <<>> /\ printed = <<>>
    /\ pc # "exited" => printed = <<>>
    /\ printed # <<>> => ReturnedList /\ printed = l

\* main has printed the rows of a complete list
C7_Witness ==
    /\ pc = "exited"
    /\ printed # <<>>
    /\ Len(printed) = Cardinality(DOMAIN nodes)
    /\ seen["failover"] = 1

\* the goroutine ran to its end (its deferred wg.Done included)
Finished(path) == tpc[path] \in {"exit", "dead"}

\* C8: main receives from errc and reads the raw collections only in states
\* where all five goroutines have finished, and a step that changes a slot is
\* the api.Get of that slot's own goroutine and changes no other slot.
C8_FetchBarrier ==
    /\ [](pc \in {"recv", "collect", "returned", "exited"} \cup PassSet
            => \A path \in Paths : Finished(path))
    /\ [][/\ Len(errc') < Len(errc) => \A path \in Paths : Finished(path)
          /\ seen' # seen => \A path \in Paths : Finished(path)
          /\ \A path \in Paths :
                SlotOf(path)' # SlotOf(path) =>
                    /\ tpc[path] = "get" /\ tpc'[path] = "send"
                    /\ \A q \in Paths \ {path} :
                          SlotOf(q)' = SlotOf(q) /\ tpc'[q] = tpc[q]]_vars

\* main is in the receive loop, two results taken, all five slots written
C8_Witness ==
    /\ pc = "recv"
    /\ idx = 2
    /\ Len(errc) = 3
    /\ \A path \in Paths : SlotOf(path) # <<>>

\* the fetches whose api.Get returned an error
Failed == {path \in Paths : ret[path] # <<>>}

\* C9: when getHetznerData has returned: if some fetch returned an error, the
\* error returned is that of the failed fetch that sent first, and there is no
\* list; if none did, no error is returned and reconciliation ran on all five
\* collections.
C9_FirstObservedError ==
    pc \in {"returned", "exited"} =>
        IF Failed # {}
        THEN /\ l = <<>> /\ heap = <<>>
             /\ \E k \in 1..Len(sendOrder) :
                   /\ sendOrder[k] \in Failed
                   /\ \A j \in 1..(k - 1) : sendOrder[j] \notin Failed
                   /\ err = ret[sendOrder[k]]
                   /\ err[1].HttpMethod = sendOrder[k]
        ELSE /\ err = <<>>
             /\ Len(sendOrder) = NumFetches
             /\ AllFetchedAndReconciled

\* an error was returned although the first sender had succeeded: two fetches
\* failed, and the last one in request order sent before the first one
C9_Witness ==
    /\ pc = "returned"
    /\ err # <<>>
    /\ Failed = {"/server", "/failover"}
    /\ ret[sendOrder[1]] = <<>>
    /\ err = ret["/failover"]

\* C10 as stated: a request for which the transport handed back an error and no
\* response makes api.Get return a RequestError whose root cause is that
\* transport error, and does not crash the process.
C10_TransportErrorReturned ==
    \A path \in Paths :
        httpres[path] = NoResponse =>
            /\ tpc[path] \notin {"panicking", "dead"}
            /\ ret[path] = newRequestError("GET", path, NoResponse.status,
                                           TransportError(NoResponse.err))
            /\ fatal = ""

\* the requests that got a response without a transport error and with a
\* status other than 200
NonSuccess == {path \in Paths : /\ httpres[path].res /\ httpres[path].err = ""
                                /\ httpres[path].status # StatusOK}

\* C11 as stated: a request answered with a status other than 200 makes
\* api.Get return a RequestError carrying that status and stores nothing in
\* the caller's slot; the root cause is the provider error when the body holds
\* one, and the decode failure otherwise; the goroutine does not panic.
C11_NonSuccessReturnsError ==
    \A path \in NonSuccess :
        /\ tpc[path] \notin {"panicking", "dead"}
        /\ SlotOf(path) = <<>>
        /\ ret[path] = newRequestError("GET", path, httpres[path].status,
                            IF httpres[path].body = "error"
                            THEN ProviderError(httpres[path].status)
                            ELSE DecodeError)

\* the positions of a raw collection whose record names the address ip
At(raw, ip) == {k \in 1..Len(raw) : raw[k].Ip = ip}

\* C12 as stated: in every returned list a node holds a non-default Locked,
\* Separate_mac, traffic warning flag, traffic limit, Ptr, Gateway, Subnet or
\* Active_server_ip only if a raw record for the node's own address carries
\* that value; nothing of these is inherited from the node it was cloned from.
C12_OwnGranularity ==
    ReturnedList =>
        \A i \in 1..Len(l) :
            LET n == Out(i) IN
            /\ n.Separate_mac # "" =>
                  \E k \in At(rips, n.Ip) : ParseMAC(rips[k].Separate_mac) = n.Separate_mac
            /\ n.Locked =>
                  \/ \E k \in At(rips, n.Ip) : rips[k].Locked
                  \/ \E k \in At(rsubnets, n.Ip) : rsubnets[k].Locked
            /\ n.Traffic_warnings =>
                  \/ \E k \in At(rips, n.Ip) : rips[k].Traffic_warnings
                  \/ \E k \in At(rsubnets, n.Ip) : rsubnets[k].Traffic_warnings
            /\ n.Traffic_hourly # 0 =>
                  \/ \E k \in At(rips, n.Ip) : rips[k].Traffic_hourly = n.Traffic_hourly
                  \/ \E k \in At(rsubnets, n.Ip) : rsubnets[k].Traffic_hourly = n.Traffic_hourly
            /\ n.Traffic_daily # 0 =>
                  \/ \E k \in At(rips, n.Ip) : rips[k].Traffic_daily = n.Traffic_daily
                  \/ \E k \in At(rsubnets, n.Ip) : rsubnets[k].Traffic_daily = n.Traffic_daily
            /\ n.Traffic_monthly # 0 =>
                  \/ \E k \in At(rips, n.Ip) : rips[k].Traffic_monthly = n.Traffic_monthly
                  \/ \E k \in At(rsubnets, n.Ip) : rsubnets[k].Traffic_monthly = n.Traffic_monthly
            /\ n.Ptr # "" => \E k \in At(rrdns, n.Ip) : rrdns[k].Ptr = n.Ptr
            /\ n.Gateway # NilIp => \E k \in At(rsubnets, n.Ip) : rsubnets[k].Gateway = n.Gateway
            /\ n.Subnet # NoSubnet => At(rsubnets, n.Ip) # {}
            /\ n.Active_server_ip # NilIp =>
                  \E k \in At(rfailover, n.Ip) : rfailover[k].Active_server_ip = n.Active_server_ip

\* the nodes a list of pointers names, in order
NodesOf(h, s) == [i \in 1..Len(s) |-> h[s[i]]]

\* C13 as stated: the list returned for a node table does not depend on the
\* order in which the range over the map visits the table: any two iteration
\* orders sort to the same sequence of nodes.
C13_DeterministicOutput ==
    pc = "collect" =>
        \A o1, o2 \in Orders(Range(nodes)) :
            NodesOf(heap, SortNodes(heap, o1)) = NodesOf(heap, SortNodes(heap, o2))

AtRdns == pc = "rdns"

\* every node that existed before the step is unchanged, and one node was added
OneNodeAdded(key) ==
    /\ Len(heap') = Len(heap) + 1
    /\ SubSeq(heap', 1, Len(heap)) = heap
    /\ DOMAIN nodes' = DOMAIN nodes \cup {key}
    /\ nodes'[key] = Len(heap) + 1
    /\ \A k \in DOMAIN nodes : nodes'[k] = nodes[k]

\* C14: the step the RDNS pass takes at a record: (1) a node at exactly the
\* record's IP gets the PTR and nothing else changes; (2) otherwise, when some
\* subnet contains the IP, one Virtual node is added at the IP with the PTR and
\* the ancestry of the Host that owns the first containing subnet in creation
\* order; (3) otherwise the run aborts and the table is unchanged.
C14_RdnsPlacement ==
    [][AtRdns =>
        LET e == rrdns[idx]
            key == IpString(e.Ip)
            hit == {i \in 1..Len(subnets) : Contains(heap[subnets[i]].Subnet, e.Ip)}
        IN IF key \in DOMAIN nodes
           THEN /\ nodes' = nodes /\ subnets' = subnets
                /\ heap' = [heap EXCEPT ![nodes[key]].Ptr = e.Ptr]
                /\ pc' # "crashed"
           ELSE IF hit # {}
           THEN \E i \in hit :
                   /\ \A j \in hit : i <= j
                   /\ OneNodeAdded(key)
                   /\ subnets' = subnets
                   /\ pc' # "crashed"
                   /\ LET s == heap[subnets[i]]
                          n == heap'[Len(heap) + 1]
                      IN /\ n.Kind = KindVirtual /\ n.Ip = e.Ip /\ n.Ptr = e.Ptr
                         /\ SameAncestry(n, s)
                         /\ \E h \in 1..Len(heap) :
                               /\ heap[h].Kind = KindHost
                               /\ heap[h].Ip = s.Server_ip
                               /\ nodes[IpString(s.Server_ip)] = h
                               /\ SameAncestry(n, heap[h])
           ELSE Aborted /\ heap' = heap /\ nodes' = nodes /\ subnets' = subnets]_vars

\* a Virtual node was placed at an address that two subnets of different
\* servers contain, and it belongs to the server of the earlier one
C14_Witness ==
    \E v \in 1..Len(heap) :
        /\ heap[v].Kind = KindVirtual
        /\ heap[v].Ptr # ""
        /\ \E i, j \in 1..Len(subnets) :
              /\ i < j
              /\ Contains(heap[subnets[i]].Subnet, heap[v].Ip)
              /\ Contains(heap[subnets[j]].Subnet, heap[v].Ip)
              /\ heap[subnets[i]].Server_number = heap[v].Server_number
              /\ heap[subnets[j]].Server_number # heap[v].Server_number

AtSubnet == pc = "subnets"

TableUnchanged == heap' = heap /\ nodes' = nodes /\ subnets' = subnets

\* one Network node for the subnet e was added to the table and appended to
\* the end of the subnet list
NetworkAdded(e) ==
    /\ OneNodeAdded(IpString(e.Ip))
    /\ heap'[Len(heap) + 1].Kind = KindNetwork
    /\ heap'[Len(heap) + 1].Ip = e.Ip
    /\ subnets' = Append(subnets, Len(heap) + 1)
    /\ pc' # "crashed"

\* C15 as stated: the step the subnet pass takes at a record aborts the run and
\* leaves the table alone when a node occupies the subnet's address, and in
\* every other case adds one Network node there and appends it to the subnet
\* list.
C15_CollisionElseAdded ==
    [][AtSubnet =>
        LET e == rsubnets[idx] IN
        IF IpString(e.Ip) \in DOMAIN nodes
        THEN Aborted /\ TableUnchanged
        ELSE NetworkAdded(e)]_vars

\* C15 amended: the step aborts the run and leaves the table alone when a node
\* occupies the subnet's address or no node is bound to the subnet's owning
\* server IP; in every other case it adds one Network node at the address and
\* appends it to the subnet list.
C15_CollisionOrNoOwnerElseAdded ==
    [][AtSubnet =>
        LET e == rsubnets[idx] IN
        IF IpString(e.Ip) \in DOMAIN nodes
        THEN Aborted /\ TableUnchanged
        ELSE IF IpString(e.Server_ip) \notin DOMAIN nodes
        THEN Aborted /\ TableUnchanged
        ELSE NetworkAdded(e)]_vars

\* the run died on a subnet whose address an earlier subnet's Network node
\* occupies, after that earlier subnet had been added and listed
C15_Witness ==
    /\ pc = "crashed"
    /\ idx \in 1..Len(rsubnets)
    /\ seen["ips"] = Len(rips) /\ seen["subnets"] = idx - 1
    /\ fatal = "subnet conflicted with node " \o IpString(rsubnets[idx].Ip)
    /\ Found(IpString(rsubnets[idx].Ip))
    /\ heap[nodes[IpString(rsubnets[idx].Ip)]].Kind = KindNetwork
    /\ subnets = <<nodes[IpString(rsubnets[idx].Ip)]>>

\* C16: the step the IP pass takes at a record whose IP already has a node
\* adds no node and rebinds no key; of that node only Locked, Separate_mac,
\* Traffic_warnings and the three traffic limits change, to the record's
\* values; every other node is unchanged and the run goes on.
C16_InPlaceUpdate ==
    [][(AtIp /\ IpString(rips[idx].Ip) \in DOMAIN nodes) =>
        LET e == rips[idx]
            m == nodes[IpString(e.Ip)]
        IN /\ nodes' = nodes /\ subnets' = subnets
           /\ Len(heap') = Len(heap)
           /\ \A k \in 1..Len(heap) : k # m => heap'[k] = heap[k]
           /\ heap'[m] = [heap[m] EXCEPT
                             !.Locked = heap'[m].Locked,
                             !.Separate_mac = heap'[m].Separate_mac,
                             !.Traffic_warnings = heap'[m].Traffic_warnings,
                             !.Traffic_hourly = heap'[m].Traffic_hourly,
                             !.Traffic_daily = heap'[m].Traffic_daily,
                             !.Traffic_monthly = heap'[m].Traffic_monthly]
           /\ heap'[m].Kind = heap[m].Kind /\ heap'[m].Ip = heap[m].Ip
           /\ SameAncestry(heap'[m], heap[m])
           /\ heap'[m].Locked = e.Locked
           /\ heap'[m].Traffic_warnings = e.Traffic_warnings
           /\ heap'[m].Traffic_hourly = e.Traffic_hourly
           /\ heap'[m].Traffic_daily = e.Traffic_daily
           /\ heap'[m].Traffic_monthly = e.Traffic_monthly
           /\ pc' # "crashed"]_vars

\* the IP pass has updated a Host node in place: the table holds only the
\* Host nodes, and one of them is locked and has a separate MAC
C16_Witness ==
    /\ seen["ips"] >= 1
    /\ seen["subnets"] = 0
    /\ Len(heap) = Len(rservers)
    /\ \E k \in 1..Len(heap) :
          /\ heap[k].Kind = KindHost
          /\ heap[k].Locked
          /\ heap[k].Separate_mac # ""
          /\ heap[k].Traffic_hourly # 0

\* C17: in every returned list the Failover-kind nodes are exactly the nodes
\* at the IPs of the RawFailover records; each has its Failover flag set, a
\* Subnet, and the Active_server_ip of its record; a Network node whose subnet
\* is failover-flagged and has no RawFailover record is still Network-kind.
C17_FailoverPromotion ==
    ReturnedList =>
        /\ {Out(i).Ip : i \in {j \in 1..Len(l) : Out(j).Kind = KindFailover}}
              = {rfailover[k].Ip : k \in 1..Len(rfailover)}
        /\ \A i \in 1..Len(l) :
              Out(i).Kind = KindFailover =>
                  /\ Out(i).Failover
                  /\ Out(i).Subnet # NoSubnet
                  /\ \E k \in At(rfailover, Out(i).Ip) :
                        Out(i).Active_server_ip = rfailover[k].Active_server_ip
        /\ \A k \in 1..Len(rsubnets) :
              (rsubnets[k].Failover /\ At(rfailover, rsubnets[k].Ip) = {}) =>
                  \E i \in 1..Len(l) :
                      /\ Out(i).Ip = rsubnets[k].Ip
                      /\ Out(i).Kind = KindNetwork
                      /\ Out(i).Failover
                      /\ Out(i).Active_server_ip = NilIp

\* a returned list with a promoted Failover node and a failover-flagged
\* Network node that no RawFailover record names
C17_Witness ==
    /\ ReturnedList
    /\ \E i, j \in 1..Len(l) :
          /\ Out(i).Kind = KindFailover /\ Out(i).Active_server_ip # NilIp
          /\ Out(j).Kind = KindNetwork /\ Out(j).Failover

\* the addresses the records of a raw collection name
MainIps == {rservers[k].Server_ip : k \in 1..Len(rservers)}
IpsOf(raw) == {raw[k].Ip : k \in 1..Len(raw)}

\* C18: a returned list holds one node for each distinct address among the
\* server main IPs and the IPs of the RawIp, RawSubnet and RawRdns records, and
\* no other node; the node of a main IP is Host-kind, of another RawIp IP
\* Management-kind, of a subnet address Network- or Failover-kind, and of an
\* RDNS IP that is none of these Virtual-kind.
C18_NodeCensus ==
    ReturnedList =>
        LET addrs == MainIps \cup IpsOf(rips) \cup IpsOf(rsubnets) \cup IpsOf(rrdns) IN
        /\ {Out(i).Ip : i \in 1..Len(l)} = addrs
        /\ Len(l) = Cardinality(addrs)
        /\ \A i \in 1..Len(l) :
              LET n == Out(i) IN
              /\ n.Ip \in MainIps => n.Kind = KindHost
              /\ n.Ip \in IpsOf(rips) \ MainIps => n.Kind = KindManagement
              /\ n.Ip \in IpsOf(rsubnets) => n.Kind \in {KindNetwork, KindFailover}
              /\ n.Ip \in IpsOf(rrdns) \ (MainIps \cup IpsOf(rips) \cup IpsOf(rsubnets))
                    => n.Kind = KindVirtual

\* a returned list with a node of each origin, built from more records than
\* there are addresses (a RawIp record names a server's main IP)
C18_Witness ==
    /\ ReturnedList
    /\ {KindHost, KindManagement, KindNetwork, KindVirtual} \subseteq KindsOut
    /\ IpsOf(rips) \cap MainIps # {}
    /\ Len(l) < Len(rservers) + Len(rips) + Len(rsubnets) + Len(rrdns)

\* the pass that creates nodes of a kind (a Failover node was created as a
\* Network node)
CreatedIn(k) == IF k = KindFailover THEN KindNetwork ELSE k

\* C19 as stated: a key of the table, once bound, stays bound to the same
\* node, and an allocated node is never dropped; nodes are allocated in pass
\* order and only the failover pass reclassifies; every RawServer record has
\* its Host node in the returned list.
C19_Lifecycle ==
    /\ [][/\ \A k \in DOMAIN nodes : k \in DOMAIN nodes' /\ nodes'[k] = nodes[k]
          /\ Len(heap') >= Len(heap)
          /\ \A i \in 1..Len(heap) :
                /\ heap'[i].Ip = heap[i].Ip
                /\ heap'[i].Kind # heap[i].Kind =>
                      pc = "failover" /\ heap'[i].Kind = KindFailover]_vars
    /\ [](/\ \A i, j \in 1..Len(heap) :
                i < j => CreatedIn(heap[i].Kind) <= CreatedIn(heap[j].Kind)
          /\ ReturnedList =>
                \A k \in 1..Len(rservers) :
                    \E i \in 1..Len(l) :
                        /\ Out(i).Kind = KindHost
                        /\ Out(i).Ip = rservers[k].Server_ip
                        /\ Out(i).Server_number = rservers[k].Server_number)

\* C20: the step the subnet pass takes at a record whose owning server IP has
\* no node aborts the run and leaves the table alone; no Network or Failover
\* node ever has empty ancestry, and a run that died has returned no list.
C20_SubnetWithoutOwnerAborts ==
    /\ [][(AtSubnet /\ IpString(rsubnets[idx].Server_ip) \notin DOMAIN nodes)
            => (Aborted /\ TableUnchanged)]_vars
    /\ [](/\ \A i \in 1..Len(heap) :
                heap[i].Kind \in {KindNetwork, KindFailover} =>
                    /\ ~SameAncestry(heap[i], ZeroNode)
                    /\ \E h \in 1..Len(heap) :
                          heap[h].Kind = KindHost /\ SameAncestry(heap[h], heap[i])
          /\ fatal # "" => pc = "crashed" /\ l = <<>> /\ printed = <<>>)

\* the run died in the subnet pass at a record whose address was free and
\* whose owning server IP was bound to nothing
C20_Witness ==
    /\ pc = "crashed"
    /\ seen["ips"] = Len(rips)
    /\ idx \in 1..Len(rsubnets)
    /\ seen["subnets"] = idx - 1
    /\ fatal = "invalid memory address or nil pointer dereference"
    /\ ~Found(IpString(rsubnets[idx].Ip))
    /\ ~Found(IpString(rsubnets[idx].Server_ip))
    /\ l = <<>>

\* C21: a step of reconciliation changes the Kind of an existing node only in
\* the failover pass, only from Network to Failover and only for the node at
\* the record's IP; so a Host, Management, Virtual or Failover node keeps its
\* Kind through every record that names its address, and no node's Kind
\* changes twice.
C21_KindChangesOnce ==
    [][\A i \in 1..Len(heap) :
          /\ i <= Len(heap')
          /\ heap'[i].Kind # heap[i].Kind =>
                /\ AtFailover
                /\ heap[i].Kind = KindNetwork
                /\ heap'[i].Kind = KindFailover
                /\ nodes[IpString(rfailover[idx].Ip)] = i
          /\ heap[i].Kind \in {KindHost, KindManagement, KindVirtual, KindFailover}
                => heap'[i].Kind = heap[i].Kind]_vars

\* a finished run in which a Network node was promoted while the Host node,
\* named by a RawIp and a RawRdns record of its own address, is still a Host
C21_Witness ==
    /\ ReturnedList
    /\ KindFailover \in KindsOut
    /\ \E i \in 1..Len(l) :
          /\ Out(i).Kind = KindHost
          /\ At(rips, Out(i).Ip) # {}
          /\ At(rrdns, Out(i).Ip) # {}
          /\ Out(i).Ptr # ""

\* main is still in the fetch phase: at wg.Wait() or in the receive loop
InFetchPhase == pc \in {"wait", "recv"}

\* C22: when every api.Get returns, a goroutine about to send finds room in
\* errc, at most five values are ever sent, main in the receive loop always
\* finds a value waiting and has taken fewer than five, and main eventually
\* gets past wg.Wait() and out of the receive loop.
C22_FanOutTerminates ==
    /\ [](/\ \A path \in Paths : tpc[path] = "send" => Len(errc) < CapErrc
          /\ Len(sendOrder) <= NumFetches
          /\ Len(errc) <= CapErrc
          /\ pc = "recv" =>
                /\ idx < CapErrc
                /\ errc # <<>>
                /\ Len(errc) = NumFetches - idx
                /\ Len(sendOrder) = NumFetches)
    /\ <>(pc # "wait")
    /\ <>(~InFetchPhase)

\* main has left the receive loop after taking five nil results, the last of
\* them sent by the goroutine that was started first
C22_Witness ==
    /\ pc = "hosts"
    /\ errc = <<>>
    /\ Len(sendOrder) = NumFetches
    /\ sendOrder[NumFetches] = "/server"
    /\ \A path \in Paths : tpc[path] = "exit" /\ ret[path] = <<>>
    /\ wg = 0

====
